---- MODULE Spec2Model ----
(***************************************************************************)
(* Board navigation and event loop of the terminal dashboard (main.rs).    *)
(*                                                                         *)
(* The foreground loop of main() is modelled with a program counter:       *)
(*   "draw"  - about to call terminal.draw (line 127)                      *)
(*   "recv"  - blocked in rx.recv() (line 263)                             *)
(*   "match" - an event has been received and is being matched (264-337)   *)
(*   "exit_ok" / "exit_err" / "panic" - main has returned Ok, returned Err *)
(*             through a `?`, or unwound on a panic.                       *)
(* The backing file ./data/db.json is external to the process: it is read  *)
(* again by every query and may be edited between any two steps.           *)
(*                                                                         *)
(* usize values are kept as signed representatives: r >= 0 stands for r    *)
(* and r < 0 stands for 2^64 + r, so that wrapping arithmetic near both    *)
(* ends of the range is exact (usize::MAX is -1).                          *)
(***************************************************************************)
EXTENDS Integers, Sequences, FiniteSets, TLC

\* ---- bounds ----
MaxTasks == 3   \* most records in the backing file
MaxDrift == 2   \* how far a cursor may run outside 0..MaxTasks-1 (wrapping build)
MaxSent == 3    \* most events the producer thread sends (SpecChan)

\* ---- types of the source ----
TodoStatus == {"Todo", "Done", "Doing"}
MenuItem == {"Home", "Todos", "Timers", "TimeTracking"}
KeyCode == {"q", "w", "t", "i", "m", "Left", "Right", "Up", "Down",
            "h", "j", "k", "l", "other"}
Event == KeyCode \cup {"Tick"}

None == << >>
Some(x) == << x >>

\* ---- usize arithmetic on signed representatives ----
ULt(a, b) == IF (a < 0) = (b < 0) THEN a < b ELSE b < 0
UGe(a, b) == ~ULt(a, b)
UGt(a, b) == ULt(b, a)
SubOverflows(a, b) == ULt(a, b)

VARIABLES
    db,                 \* contents of DB_PATH: the status of each record, in file order
    overflow_checks,    \* build profile: TRUE = arithmetic overflow panics, FALSE = wraps
    active_menu_item,
    todo_list_state,    \* ListState.selected of each column: None or Some(index)
    doing_list_state,
    done_list_state,
    pc,
    event,              \* the event bound by `match rx.recv()?`, "none" outside the match
    raw_mode,           \* terminal raw mode (enable_raw_mode / disable_raw_mode)
    panic_msg,          \* message of the panic that unwound main, "" if none
    selected_todo,      \* render_todos' selected_todo in the frame just drawn
    run,                \* history: the current run of equal 'j' or 'k' keys
    shrunk,             \* history: the Todo list shrank since it was last resolved
    hotkeys,            \* the underlined position of each menu label in the last frame
    chan,               \* events sent on tx and not yet received on rx
    sent,               \* history: the events the producer thread has sent, in order
    nrecv,              \* history: number of events rx.recv() has returned
    last,               \* history: the event whose handler ran last, until the next draw
    frames              \* history: frames drawn since the last event was received

cursors == << todo_list_state, doing_list_state, done_list_state >>
vars == << db, overflow_checks, active_menu_item, todo_list_state,
           doing_list_state, done_list_state, pc, event, raw_mode,
           panic_msg, selected_todo, run, shrunk, hotkeys, chan, sent,
           nrecv, last, frames >>
chanvars == << chan, sent, nrecv >>
hist == << last, frames >>

\* ---- task store ----
Todos(d) == [n \in 1..Len(d) |-> [id |-> n, status |-> d[n]]]

\* the filter inverted: `s.status != status`
read_db_by_todo_status_of_Inverted(d, status) ==
    SelectSeq(Todos(d), LAMBDA s : s.status # status)

read_db_by_todo_status_of(d, status) ==
    SelectSeq(Todos(d), LAMBDA s : s.status = status)

read_db_by_todo_status(status) == read_db_by_todo_status_of(db, status)

AllDbs == UNION {[1..n -> TodoStatus] : n \in 0..MaxTasks}

NoRun == [key |-> "none", start |-> 0, n |-> 0]

Init ==
    /\ db \in AllDbs
    /\ overflow_checks \in BOOLEAN
    /\ active_menu_item = "Home"
    /\ todo_list_state = Some(0)
    /\ doing_list_state = None
    /\ done_list_state = None
    /\ pc = "draw"
    /\ event = "none"
    /\ raw_mode = TRUE
    /\ panic_msg = ""
    /\ selected_todo = None
    /\ run = NoRun
    /\ shrunk = FALSE
    /\ hotkeys = << >>
    /\ chan = << >>
    /\ sent = << >>
    /\ nrecv = 0
    /\ last = "none"
    /\ frames = 0

Running == pc \in {"draw", "recv", "match"}

\* ---- the backing file is edited by somebody else ----
\* One record is appended, removed or given another status.  An edit made
\* while an event is being matched reaches the same states as the same edit
\* made just before that event was received (Recv does not read the file), so
\* edits are placed before a draw or before a receive.
RemoveAt(d, n) == [m \in 1..(Len(d) - 1) |-> IF m < n THEN d[m] ELSE d[m + 1]]

StoreEdits(d) ==
    {Append(d, s) : s \in IF Len(d) < MaxTasks THEN TodoStatus ELSE {}}
    \cup {RemoveAt(d, n) : n \in 1..Len(d)}
    \cup {[d EXCEPT ![n] = s] : n \in 1..Len(d), s \in TodoStatus}

StoreChange ==
    /\ pc \in {"draw", "recv"}
    /\ \E d \in StoreEdits(db) \ {db} :
        /\ db' = d
        /\ shrunk' = IF Len(read_db_by_todo_status_of(d, "Todo"))
                        < Len(read_db_by_todo_status("Todo"))
                     THEN TRUE
                     ELSE IF Len(read_db_by_todo_status_of(d, "Todo"))
                             = Len(read_db_by_todo_status("Todo"))
                          THEN shrunk ELSE FALSE
    /\ run' = NoRun
    /\ UNCHANGED << overflow_checks, active_menu_item, cursors, pc, event,
                    raw_mode, panic_msg, selected_todo, hotkeys, chanvars,
                    hist >>

\* ---- render ----
Panic(msg) ==
    /\ pc' = "panic"
    /\ panic_msg' = msg
    /\ UNCHANGED hist

\* render_todos: the three queries succeed, then the Todo cursor is resolved
render_todos_panics ==
    \/ todo_list_state = None
    \/ ~(todo_list_state[1] \in 0..(Len(read_db_by_todo_status("Todo")) - 1))

\* the cursor resolved in the unfiltered collection (read_db)
render_todos_selected_Unfiltered ==
    Some(Todos(db)[todo_list_state[1] + 1])

render_todos_selected ==
    Some(read_db_by_todo_status("Todo")[todo_list_state[1] + 1])

\* the menu bar (lines 153-201): the position underlined in a label is the
\* first of its first two characters not yet in hotkey_set, else the third
menu_titles ==
    << << "H", "o", "m", "e" >>,
       << "T", "o", "d", "o", "s" >>,
       << "T", "i", "m", "e", "r", "s" >>,
       << "T", "i", "m", "e", "T", "r", "a", "c", "k", "i", "n", "g" >>,
       << "Q", "u", "i", "t" >> >>

\* a menu that looks at the first character only
Hotkey_FirstOnly(t, hotkey_set) == 1

Hotkey(t, hotkey_set) ==
    IF ~(t[1] \in hotkey_set) THEN 1
    ELSE IF ~(t[2] \in hotkey_set) THEN 2
    ELSE 3

RECURSIVE MenuFrom(_, _)
MenuFrom(titles, hotkey_set) ==
    IF titles = << >> THEN << >>
    ELSE LET t == Head(titles)
             h == Hotkey(t, hotkey_set)
         IN  << h >> \o MenuFrom(Tail(titles), hotkey_set \cup {t[h]})

\* the frame is on the screen
Drawn ==
    /\ last' = "none"
    /\ frames' = frames + 1

Draw ==
    /\ pc = "draw"
    /\ IF active_menu_item = "Todos"
       THEN IF todo_list_state = None
            THEN Panic("there is always a selected todo") /\ selected_todo' = None
            ELSE IF render_todos_panics
                 THEN Panic("exists") /\ selected_todo' = None
                 ELSE /\ pc' = "recv"
                      /\ selected_todo' = render_todos_selected
                      /\ Drawn
                      /\ UNCHANGED panic_msg
       ELSE /\ pc' = "recv"
            /\ selected_todo' = None
            /\ Drawn
            /\ UNCHANGED panic_msg
    /\ hotkeys' = MenuFrom(menu_titles, {})
    /\ shrunk' = IF active_menu_item = "Todos" THEN FALSE ELSE shrunk
    /\ UNCHANGED << chanvars, db, overflow_checks, active_menu_item, cursors,
                    event, raw_mode, run >>

\* a query of render_todos fails: .expect("can fetch todo list")
DrawStoreError ==
    /\ pc = "draw"
    /\ active_menu_item = "Todos"
    /\ Panic("can fetch todo list")
    /\ UNCHANGED << chanvars, hotkeys, db, overflow_checks, active_menu_item, cursors, event,
                    raw_mode, selected_todo, run, shrunk >>

\* terminal.draw(..)? returns Err
DrawError ==
    /\ pc = "draw"
    /\ pc' = "exit_err"
    /\ UNCHANGED << hist, chanvars, hotkeys, db, overflow_checks, active_menu_item, cursors, event,
                    raw_mode, panic_msg, selected_todo, run, shrunk >>

\* ---- receive ----
Recv ==
    /\ pc = "recv"
    /\ \E e \in Event : event' = e
    /\ pc' = "match"
    /\ selected_todo' = None
    /\ frames' = 0
    /\ UNCHANGED << chanvars, hotkeys, db, overflow_checks, active_menu_item,
                    cursors, raw_mode, panic_msg, run, shrunk, last >>

\* a closed channel handled with `break` instead of `?`
RecvError_Break ==
    /\ pc = "recv"
    /\ chan = << >>
    /\ pc' = "exit_ok"
    /\ UNCHANGED << hist, chanvars, hotkeys, db, overflow_checks, active_menu_item, cursors, event,
                    raw_mode, panic_msg, selected_todo, run, shrunk >>

\* rx.recv()? returns Err: the producer thread is gone and nothing is queued
RecvError ==
    /\ pc = "recv"
    /\ chan = << >>
    /\ pc' = "exit_err"
    /\ UNCHANGED << hist, chanvars, hotkeys, db, overflow_checks, active_menu_item, cursors, event,
                    raw_mode, panic_msg, selected_todo, run, shrunk >>

\* a handler that goes straight back to rx.recv()
Continue_SkipsDraw ==
    /\ pc' = "recv"
    /\ event' = "none"
    /\ last' = event
    /\ UNCHANGED frames

Continue ==
    /\ pc' = "draw"
    /\ event' = "none"
    /\ last' = event
    /\ UNCHANGED frames

\* ---- key handlers ----
InDrift(x) == x \in (0 - MaxDrift)..(MaxTasks - 1 + MaxDrift)

RunAfter(key, selected, amount) ==
    IF run.key = key /\ run.n < amount
    THEN [run EXCEPT !.n = @ + 1]
    ELSE [key |-> key, start |-> selected, n |-> 1]

\* off by one at the wrap: `selected >= amount_todos`
JNext_OffByOne(selected, amount_todos) ==
    IF UGe(selected, amount_todos) THEN 0 ELSE selected + 1

\* 'j': wrap to the first row at the end of the list
JNext(selected, amount_todos) ==
    IF UGe(selected, amount_todos - 1) THEN 0 ELSE selected + 1

\* 'k': wrap to the last row at the start of the list
KNext(selected, amount_todos) ==
    IF UGt(selected, 0) THEN selected - 1 ELSE amount_todos - 1

KeyJ ==
    /\ pc = "match"
    /\ event = "j"
    /\ IF todo_list_state = None
       THEN Continue /\ UNCHANGED << todo_list_state, panic_msg, run, shrunk >>
       ELSE LET selected == todo_list_state[1]
                amount_todos == Len(read_db_by_todo_status("Todo"))
            IN  IF overflow_checks /\ SubOverflows(amount_todos, 1)
                THEN /\ Panic("attempt to subtract with overflow")
                     /\ UNCHANGED << todo_list_state, event, run, shrunk >>
                ELSE /\ InDrift(JNext(selected, amount_todos))
                     /\ todo_list_state' = Some(JNext(selected, amount_todos))
                     /\ run' = RunAfter("j", selected, amount_todos)
                     /\ shrunk' = FALSE
                     /\ Continue
                     /\ UNCHANGED panic_msg
    /\ UNCHANGED << chanvars, hotkeys, db, overflow_checks, active_menu_item, doing_list_state,
                    done_list_state, raw_mode, selected_todo >>

KeyK ==
    /\ pc = "match"
    /\ event = "k"
    /\ IF todo_list_state = None
       THEN Continue /\ UNCHANGED << todo_list_state, panic_msg, run, shrunk >>
       ELSE LET selected == todo_list_state[1]
                amount_todos == Len(read_db_by_todo_status("Todo"))
            IN  IF overflow_checks /\ ~UGt(selected, 0)
                   /\ SubOverflows(amount_todos, 1)
                THEN /\ Panic("attempt to subtract with overflow")
                     /\ UNCHANGED << todo_list_state, event, run, shrunk >>
                ELSE /\ InDrift(KNext(selected, amount_todos))
                     /\ todo_list_state' = Some(KNext(selected, amount_todos))
                     /\ run' = RunAfter("k", selected, amount_todos)
                     /\ shrunk' = FALSE
                     /\ Continue
                     /\ UNCHANGED panic_msg
    /\ UNCHANGED << chanvars, hotkeys, db, overflow_checks, active_menu_item, doing_list_state,
                    done_list_state, raw_mode, selected_todo >>

\* the query of the 'j' / 'k' handler fails: .expect("can fetch todo list")
KeyJKStoreError ==
    /\ pc = "match"
    /\ event \in {"j", "k"}
    /\ todo_list_state # None
    /\ Panic("can fetch todo list")
    /\ UNCHANGED << chanvars, hotkeys, db, overflow_checks, active_menu_item, cursors, event,
                    raw_mode, selected_todo, run, shrunk >>

\* the 'l' arm with `todo_list_state.select(None)` (line 324) restored
KeyL_ClearsTodo ==
    /\ pc = "match"
    /\ event = "l"
    /\ IF todo_list_state # None
       THEN /\ todo_list_state' = None
            /\ doing_list_state' = Some(0)
            /\ UNCHANGED done_list_state
       ELSE IF doing_list_state # None
            THEN /\ done_list_state' = Some(0)
                 /\ UNCHANGED << todo_list_state, doing_list_state >>
            ELSE UNCHANGED cursors
    /\ Continue
    /\ UNCHANGED << chanvars, hotkeys, db, overflow_checks, active_menu_item,
                    raw_mode, panic_msg, selected_todo, run, shrunk >>

KeyL ==
    /\ pc = "match"
    /\ event = "l"
    /\ IF todo_list_state # None
       THEN /\ doing_list_state' = Some(0)
            /\ UNCHANGED done_list_state
       ELSE IF doing_list_state # None
            THEN /\ done_list_state' = Some(0)
                 /\ UNCHANGED doing_list_state
            ELSE UNCHANGED << doing_list_state, done_list_state >>
    /\ Continue
    /\ UNCHANGED << chanvars, hotkeys, db, overflow_checks, active_menu_item, todo_list_state,
                    raw_mode, panic_msg, selected_todo, run, shrunk >>

\* the 't' and 'i' arms exchanged
MenuOf_Swapped(key) ==
    CASE key = "w" -> "Home"
      [] key = "t" -> "Timers"
      [] key = "i" -> "Todos"
      [] key = "m" -> "TimeTracking"

MenuOf(key) ==
    CASE key = "w" -> "Home"
      [] key = "t" -> "Todos"
      [] key = "i" -> "Timers"
      [] key = "m" -> "TimeTracking"

\* a screen switch that also puts the Todo cursor back on the first row
KeyScreen_ResetsCursor ==
    /\ pc = "match"
    /\ event \in {"w", "t", "i", "m"}
    /\ active_menu_item' = MenuOf(event)
    /\ todo_list_state' = Some(0)
    /\ Continue
    /\ UNCHANGED << chanvars, hotkeys, db, overflow_checks, doing_list_state, done_list_state,
                    raw_mode, panic_msg, selected_todo, run, shrunk >>

KeyScreen ==
    /\ pc = "match"
    /\ event \in {"w", "t", "i", "m"}
    /\ active_menu_item' = MenuOf(event)
    /\ Continue
    /\ UNCHANGED << chanvars, hotkeys, db, overflow_checks, cursors, raw_mode, panic_msg,
                    selected_todo, run, shrunk >>

\* Left, Right, Up, Down, 'h' and the `_` arm
KeyNoop ==
    /\ pc = "match"
    /\ event \in {"Left", "Right", "Up", "Down", "h", "other"}
    /\ Continue
    /\ UNCHANGED << chanvars, hotkeys, db, overflow_checks, active_menu_item, cursors, raw_mode,
                    panic_msg, selected_todo, run, shrunk >>

\* a Tick that also goes back to the Home screen
Tick_GoesHome ==
    /\ pc = "match"
    /\ event = "Tick"
    /\ active_menu_item' = "Home"
    /\ Continue
    /\ UNCHANGED << chanvars, hotkeys, db, overflow_checks, cursors, raw_mode,
                    panic_msg, selected_todo, run, shrunk >>

Tick ==
    /\ pc = "match"
    /\ event = "Tick"
    /\ Continue
    /\ UNCHANGED << chanvars, hotkeys, db, overflow_checks, active_menu_item, cursors, raw_mode,
                    panic_msg, selected_todo, run, shrunk >>

\* the 'q' arm without its `break`
KeyQ_NoBreak ==
    /\ pc = "match"
    /\ event = "q"
    /\ raw_mode' = FALSE
    /\ Continue
    /\ UNCHANGED << chanvars, hotkeys, db, overflow_checks, active_menu_item, cursors,
                    panic_msg, selected_todo, run, shrunk >>

\* disable_raw_mode()?; terminal.show_cursor()?; break; then Ok(())
KeyQ ==
    /\ pc = "match"
    /\ event = "q"
    /\ raw_mode' = FALSE
    /\ pc' = "exit_ok"
    /\ UNCHANGED << hist, chanvars, hotkeys, db, overflow_checks, active_menu_item, cursors, event,
                    panic_msg, selected_todo, run, shrunk >>

\* one of the two `?` of the 'q' arm returns Err: disable_raw_mode failed
\* (raw mode stays on) or show_cursor failed (raw mode already off)
KeyQRestoreError ==
    /\ pc = "match"
    /\ event = "q"
    /\ raw_mode' \in BOOLEAN
    /\ pc' = "exit_err"
    /\ UNCHANGED << hist, chanvars, hotkeys, db, overflow_checks, active_menu_item, cursors, event,
                    panic_msg, selected_todo, run, shrunk >>

Next ==
    \/ StoreChange
    \/ Draw
    \/ DrawStoreError
    \/ DrawError
    \/ Recv
    \/ RecvError
    \/ KeyQ
    \/ KeyQRestoreError
    \/ KeyScreen
    \/ KeyNoop
    \/ KeyJ
    \/ KeyK
    \/ KeyJKStoreError
    \/ KeyL
    \/ Tick

Spec == Init /\ [][Next]_vars

\* ---- the producer thread and the channel (lines 88-109, 263) ----
\* Spec lets rx.recv() return any event.  SpecChan runs the same loop with
\* the producer thread and the queue of the channel written out, for one
\* file that nobody edits.

\* event::poll found a key: tx.send(Event::Input(key))
ProducerKey ==
    /\ Running
    /\ Len(sent) < MaxSent
    /\ \E key \in KeyCode :
        /\ chan' = Append(chan, key)
        /\ sent' = Append(sent, key)
    /\ UNCHANGED << db, overflow_checks, active_menu_item, cursors, pc, event,
                    raw_mode, panic_msg, selected_todo, run, shrunk, hotkeys,
                    nrecv, hist >>

\* tick_rate has elapsed: tx.send(Event::Tick)
ProducerTick ==
    /\ Running
    /\ Len(sent) < MaxSent
    /\ chan' = Append(chan, "Tick")
    /\ sent' = Append(sent, "Tick")
    /\ UNCHANGED << db, overflow_checks, active_menu_item, cursors, pc, event,
                    raw_mode, panic_msg, selected_todo, run, shrunk, hotkeys,
                    nrecv, hist >>

\* a receive that takes the newest event of the queue
RecvChan_Newest ==
    /\ pc = "recv"
    /\ chan # << >>
    /\ event' = chan[Len(chan)]
    /\ chan' = SubSeq(chan, 1, Len(chan) - 1)
    /\ nrecv' = nrecv + 1
    /\ pc' = "match"
    /\ selected_todo' = None
    /\ frames' = 0
    /\ UNCHANGED << db, overflow_checks, active_menu_item, cursors, raw_mode,
                    panic_msg, run, shrunk, hotkeys, sent, last >>

\* rx.recv() returns the oldest event of the queue; it blocks on an empty one
RecvChan ==
    /\ pc = "recv"
    /\ chan # << >>
    /\ event' = Head(chan)
    /\ chan' = Tail(chan)
    /\ nrecv' = nrecv + 1
    /\ pc' = "match"
    /\ selected_todo' = None
    /\ frames' = 0
    /\ UNCHANGED << db, overflow_checks, active_menu_item, cursors, raw_mode,
                    panic_msg, run, shrunk, hotkeys, sent, last >>

InitChan ==
    /\ Init
    /\ db = << "Todo", "Todo", "Doing" >>
    /\ overflow_checks = TRUE

NextChan ==
    \/ ProducerKey
    \/ ProducerTick
    \/ Draw
    \/ DrawStoreError
    \/ DrawError
    \/ RecvChan
    \/ RecvError
    \/ KeyQ
    \/ KeyQRestoreError
    \/ KeyScreen
    \/ KeyNoop
    \/ KeyJ
    \/ KeyK
    \/ KeyJKStoreError
    \/ KeyL
    \/ Tick

SpecChan == InitChan /\ [][NextChan]_vars

ExitCode ==
    CASE pc = "exit_ok" -> 0
      [] pc = "exit_err" -> 1
      [] pc = "panic" -> 101
      [] OTHER -> -1

TypeOK ==
    /\ db \in AllDbs
    /\ active_menu_item \in MenuItem
    /\ pc \in {"draw", "recv", "match", "exit_ok", "exit_err", "panic"}
    /\ event \in Event \cup {"none"}

\* ---- properties ----
TodoLen == Len(read_db_by_todo_status("Todo"))
ColumnLen(status) == Len(read_db_by_todo_status(status))

\* the 'j' / 'k' handler ran to its end (no panic)
NavStep == pc = "match" /\ event \in {"j", "k"} /\ pc' = "draw"

\* terminal.draw ran and every store query in it succeeded
DrawStep ==
    /\ pc = "draw"
    /\ pc' \in {"recv", "panic"}
    /\ panic_msg' # "can fetch todo list"

C1_CycleInv ==
    (/\ run.key \in {"j", "k"}
     /\ TodoLen > 0
     /\ run.start \in 0..(TodoLen - 1)
     /\ run.n = TodoLen)
    => todo_list_state = Some(run.start)

C1_Step ==
    (/\ NavStep
     /\ TodoLen > 0
     /\ todo_list_state # None
     /\ todo_list_state[1] \in 0..(TodoLen - 1))
    => todo_list_state' =
         Some(IF event = "j"
              THEN (todo_list_state[1] + 1) % TodoLen
              ELSE (todo_list_state[1] - 1 + TodoLen) % TodoLen)

\* C1: on a non-empty Todo list of length N with the cursor at i in [0, N),
\* one 'j' moves the cursor to (i+1) mod N and one 'k' to (i-1+N) mod N, and
\* N 'j' keys in a row (or N 'k' keys in a row) with the list unchanged bring
\* the cursor back to i.
C1_AdvanceRetreatCycle == [] C1_CycleInv /\ [][C1_Step]_vars

C1_Witness ==
    /\ run.key = "j"
    /\ TodoLen >= 2
    /\ run.n = TodoLen
    /\ run.start = 1
    /\ todo_list_state = Some(1)

\* C2: with an empty Todo list a 'j' or 'k' leaves the cursor Unselected,
\* and the count arithmetic neither underflows nor aborts the loop.
C2_EmptyListNavigation ==
    [][(pc = "match" /\ event \in {"j", "k"} /\ TodoLen = 0)
        => /\ (pc' = "draw" => todo_list_state' = None)
           /\ (pc' = "panic"
                 => panic_msg' # "attempt to subtract with overflow")]_vars

\* C3: when the Todo list has shrunk to length L' and the cursor holds an
\* index i >= L', the next render resolves the cursor to the task at index
\* L'-1, or to nothing when L' = 0, and does not panic.
C3_ClampOnShrink ==
    [][(/\ DrawStep
        /\ active_menu_item = "Todos"
        /\ shrunk
        /\ todo_list_state # None
        /\ UGe(todo_list_state[1], TodoLen))
        => /\ pc' = "recv"
           /\ selected_todo' =
                IF TodoLen = 0 THEN None
                ELSE Some(read_db_by_todo_status("Todo")[TodoLen])]_vars

CursorInRange(state, status) ==
    state # None => state[1] \in 0..(ColumnLen(status) - 1)

\* C4: a column cursor that is Some(index) has 0 <= index < length of the
\* column's current list, in every reachable state.
C4_CursorInRange ==
    /\ CursorInRange(todo_list_state, "Todo")
    /\ CursorInRange(doing_list_state, "Doing")
    /\ CursorInRange(done_list_state, "Done")

\* C5: at most one of the three column cursors is Some.
C5_AtMostOneSelected ==
    Cardinality({n \in 1..3 : cursors[n] # None}) <= 1

\* C6: with tasks in every column, the first 'l' makes Doing the selected
\* column and an 'l' handled once Doing is selected makes Done the selected
\* column (Todo -> Doing -> Done).
C6_FocusMovesRight ==
    [][(/\ pc = "match" /\ event = "l" /\ pc' = "draw"
        /\ \A status \in TodoStatus : ColumnLen(status) > 0)
        => IF doing_list_state = None
           THEN doing_list_state' # None
           ELSE done_list_state' # None]_vars

\* C7: once focus was moved to Doing with 'l' (every cursor within its
\* list), a 'j' or 'k' leaves the Todo and Done cursors unchanged.
C7_NavigatesFocusedColumn ==
    [][(NavStep /\ doing_list_state # None /\ C4_CursorInRange)
        => /\ todo_list_state' = todo_list_state
           /\ done_list_state' = done_list_state]_vars

\* C8: handling a screen-switch key ('w', 't', 'i', 'm') leaves the three
\* column cursors unchanged.
C8_ScreenSwitchKeepsCursors ==
    [][(pc = "match" /\ event \in {"w", "t", "i", "m"})
        => cursors' = cursors]_vars

C8_Witness ==
    /\ pc = "draw"
    /\ active_menu_item = "TimeTracking"
    /\ todo_list_state = Some(1)
    /\ doing_list_state = Some(0)

QStep == pc = "match" /\ event = "q" /\ pc' # "match"

\* C9 as stated: a consumed 'q' ends the loop with exit code 0 and nothing
\* runs afterwards.
C9_QuitExitsZero ==
    [][(QStep => ExitCode' = 0) /\ Running]_vars

\* C9 amended: a consumed 'q' ends the loop and nothing runs afterwards; main
\* returns Ok (exit code 0) with raw mode disabled, or returns the error of
\* disable_raw_mode / show_cursor; it never panics and never loops on.
C9_QuitTerminates ==
    [][/\ QStep => /\ pc' \in {"exit_ok", "exit_err"}
                   /\ (pc' = "exit_ok" => ~raw_mode')
                   /\ cursors' = cursors
       /\ Running]_vars

C9_Witness ==
    /\ ExitCode = 0
    /\ ~raw_mode
    /\ active_menu_item = "Todos"
    /\ todo_list_state = Some(1)

\* C10 as stated: the loop ends only by consuming a 'q'.
C10_OnlyQuitEndsLoop ==
    [][(Running /\ ~Running') => (pc = "match" /\ event = "q")]_vars

\* C10 amended: main returns Ok only by consuming a 'q'; every other end of
\* the loop is an Err return or a panic.
C10_OnlyQuitExitsOk ==
    [][(pc' = "exit_ok") => (pc = "match" /\ event = "q")]_vars

C10_Witness ==
    /\ pc = "exit_ok"
    /\ event = "q"
    /\ doing_list_state = Some(0)

HotkeyMap == [w |-> "Home", t |-> "Todos", i |-> "Timers", m |-> "TimeTracking"]

C11_Step ==
    IF pc = "match" /\ event \in {"w", "t", "i", "m"}
    THEN active_menu_item' = HotkeyMap[event]
    ELSE active_menu_item' = active_menu_item

\* C11: the active screen starts as Home, is always one of the four screens,
\* becomes Home / Todos / Timers / TimeTracking when 'w' / 't' / 'i' / 'm' is
\* handled, and is left unchanged by every other step.
C11_ScreenFollowsHotkeys ==
    /\ active_menu_item = "Home"
    /\ [](active_menu_item \in MenuItem)
    /\ [][C11_Step]_vars

C11_Witness ==
    /\ pc = "draw"
    /\ last = "i"
    /\ active_menu_item = "Timers"

Ids(list) == [n \in 1..Len(list) |-> list[n].id]

C12_Filter(status) ==
    LET list == read_db_by_todo_status(status)
    IN  /\ \A n \in 1..Len(list) :
            /\ list[n].id \in 1..Len(db)
            /\ db[list[n].id] = status
        /\ \A n \in 1..(Len(list) - 1) : list[n].id < list[n + 1].id
        /\ \A id \in 1..Len(db) :
            db[id] = status => \E n \in 1..Len(list) : list[n].id = id

C12_Scenario ==
    db = << "Todo", "Todo", "Doing" >>
    => /\ Ids(read_db_by_todo_status("Todo")) = << 1, 2 >>
       /\ (/\ pc = "recv"
           /\ active_menu_item = "Todos"
           /\ run.key = "j"
           /\ run.start = 0)
          => /\ run.n = 1 => selected_todo = Some([id |-> 2, status |-> "Todo"])
             /\ run.n = 2 => selected_todo = Some([id |-> 1, status |-> "Todo"])

\* C12: a query by status returns exactly the records of the file that have
\* that status, each once and in file order; for the file [Todo, Todo, Doing]
\* the Todo query returns records 1 and 2, one 'j' from index 0 selects
\* record 2 and a second 'j' wraps to record 1.
C12_ListByStatus ==
    /\ \A status \in TodoStatus : C12_Filter(status)
    /\ C12_Scenario

C12_Witness ==
    /\ db = << "Todo", "Todo", "Doing" >>
    /\ pc = "recv"
    /\ active_menu_item = "Todos"
    /\ run = [key |-> "j", start |-> 0, n |-> 2]
    /\ selected_todo = Some([id |-> 1, status |-> "Todo"])

\* C13: a task resolved by the render for the Todo column (the only column
\* the render resolves) has status Todo.
C13_SelectedHasColumnStatus ==
    selected_todo # None => selected_todo[1].status = "Todo"

C13_Witness ==
    /\ selected_todo # None
    /\ selected_todo[1].id = 3
    /\ db[1] = "Doing"
    /\ db[2] = "Done"

HotkeyLetter(n) == menu_titles[n][hotkeys[n]]

\* C14: in a drawn menu every one of the five labels has its underlined
\* letter among its own first three characters, and no two labels have the
\* same underlined letter.
C14_HotkeysDistinct ==
    hotkeys # << >>
    => /\ Len(hotkeys) = Len(menu_titles)
       /\ \A n \in 1..Len(hotkeys) : hotkeys[n] \in 1..3
       /\ \A n, m \in 1..Len(hotkeys) :
            n # m => HotkeyLetter(n) # HotkeyLetter(m)

C14_Witness ==
    /\ pc = "recv"
    /\ hotkeys # << >>
    /\ HotkeyLetter(4) = "m"

\* C15: handling a Tick leaves the active screen, the three cursors and
\* every other part of the application state as they were; the loop goes on
\* to the next draw.
C15_TickChangesNothing ==
    [][(pc = "match" /\ event = "Tick")
        => /\ pc' = "draw"
           /\ active_menu_item' = active_menu_item
           /\ cursors' = cursors
           /\ raw_mode' = raw_mode
           /\ db' = db]_vars

C15_Witness ==
    /\ pc = "draw"
    /\ last = "Tick"
    /\ active_menu_item = "Todos"
    /\ todo_list_state = Some(1)
    /\ doing_list_state = Some(0)

\* C17: a store failure ends the process only after raw mode was disabled.
C17_StoreFailureRestoresTerminal ==
    (pc = "panic" /\ panic_msg = "can fetch todo list") => ~raw_mode

\* the column that 'l' moved the focus to
Focused ==
    IF done_list_state # None THEN "Done"
    ELSE IF doing_list_state # None THEN "Doing"
    ELSE "Todo"

FocusedState ==
    CASE Focused = "Done" -> done_list_state
      [] Focused = "Doing" -> doing_list_state
      [] OTHER -> todo_list_state

\* C18: a draw of the Todos screen whose store queries succeed does not fail
\* and builds the detail from the task under the focused column's cursor, or
\* an empty detail when that cursor selects no task of its list.
C18_DetailOfFocusedColumn ==
    [][(DrawStep /\ active_menu_item = "Todos")
        => /\ pc' = "recv"
           /\ selected_todo' =
                IF /\ FocusedState # None
                   /\ FocusedState[1] \in 0..(ColumnLen(Focused) - 1)
                THEN Some(read_db_by_todo_status(Focused)[FocusedState[1] + 1])
                ELSE None]_vars

C19_Step ==
    /\ (pc = "recv" /\ pc' = "match") => frames = 1
    /\ (pc = "draw" /\ pc' = "recv") => frames = 0 /\ frames' = 1
    /\ (pc = "match" /\ pc' \in {"draw", "recv", "match"})
         => /\ pc' = "draw"
            /\ frames' = 0

\* C19: a frame is drawn before the first event is received, exactly one
\* frame has been drawn since the previous event whenever an event is
\* received, and a handler that does not end the loop leads to a draw.
C19_RenderBetweenEvents ==
    /\ (pc = "draw" /\ frames = 0)
    /\ [][C19_Step]_vars

C19_Witness ==
    /\ pc = "match"
    /\ frames = 0
    /\ event = "j"
    /\ todo_list_state = Some(1)

\* C20: the Todo cursor is Some in every reachable state.
C20_TodoAlwaysSelected == todo_list_state # None

C20_Witness ==
    /\ pc = "draw"
    /\ last = "l"
    /\ doing_list_state = Some(0)
    /\ todo_list_state = Some(1)

C16_Inv ==
    /\ nrecv \in 0..Len(sent)
    /\ chan = SubSeq(sent, nrecv + 1, Len(sent))
    /\ pc = "match" => (nrecv >= 1 /\ event = sent[nrecv])

C16_Step ==
    \/ nrecv' = nrecv
    \/ /\ nrecv' = nrecv + 1
       /\ pc = "recv"
       /\ pc' = "match"

\* C16: events are received one at a time and the k-th event received is the
\* k-th event the producer thread sent; the queue always holds exactly the
\* events sent and not yet received, in the order they were sent.
C16_FifoDelivery == [] C16_Inv /\ [][C16_Step]_vars

C16_Witness ==
    /\ pc = "match"
    /\ sent = << "j", "Tick", "t" >>
    /\ nrecv = 2
    /\ event = "Tick"
    /\ chan = << "t" >>
====
